---- MODULE Spec2Model ----
(***************************************************************************)
(* Model of component_requests: the ComponentRequest document schema       *)
(* (db/collections.py), its lifecycle operations against the document      *)
(* store, and the connection set-up of db/mongo.py.                        *)
(*                                                                         *)
(* Every await of a storage round trip is one step of the model: an        *)
(* operation that looks a document up and then writes it is two steps, so  *)
(* that concurrent callers interleave exactly where asyncio lets them.     *)
(***************************************************************************)
EXTENDS Integers, Sequences, FiniteSets, TLC

\* ------------------------------------------------------------------ bounds
MaxDocs == 2        \* identifiers the store hands out
NumTasks == 2       \* concurrent callers
MaxTime == 1        \* readings of datetime.now
MaxLen == 6         \* length of the concord id strings tried

Ids == 1..MaxDocs
Tasks == 1..NumTasks
Times == 0..MaxTime

\* ---------------------------------------------------------- optional values
None == <<>>
Some(v) == <<v>>
OrElse(opt, default) == IF opt = None THEN default ELSE opt[1]

\* ------------------------------------------------------------ enumerations
Status == {"New", "In Progress", "Needs Footprint", "QC", "Complete",
           "Rejected", "Removed", "Delete"}
RequestType == {"Component Full", "Symbol Only", "Component Footprint",
                "Footprint Only"}
Librarian == {"Raymond Glover", "René Brown", "Mark Houck", "Paul Shaver",
              "Max Ludden"}
Solution == {"Footprint Expert Build", "Footprint Expert Download", "Existing",
             "Manufacturer Specification", "Copied From"}

\* A value of no vocabulary: Python does not enforce the annotations.
Bogus == "Withdrawn"

\* ------------------------------------------------- the concord id pattern
\* Strings that go through the pattern are sequences of characters.
Letters == {"A", "B", "C", "D", "E", "F", "G", "H", "I", "J", "K", "L", "M",
            "N", "O", "P", "Q", "R", "S", "T", "U", "V", "W", "X", "Y", "Z",
            "a", "b", "c", "d", "e", "f", "g", "h", "i", "j", "k", "l", "m",
            "n", "o", "p", "q", "r", "s", "t", "u", "v", "w", "x", "y", "z"}
Digits == {"0", "1", "2", "3", "4", "5", "6", "7", "8", "9"}
Separators == {"-", "_", " "}

\* The last index of the longest run of characters of class C that starts
\* at i; i - 1 when s[i] is not of class C.
RECURSIVE RunEnd(_, _, _)
RunEnd(s, i, C) ==
    IF i <= Len(s) /\ s[i] \in C THEN RunEnd(s, i + 1, C) ELSE i - 1

IsSeparator(s, i) == i <= Len(s) /\ s[i] \in Separators

\* The indices e for which s[i..e] is [a-zA-Z]{1,6}[-_ ]\d+[-_ ]\d+ :
\* k letters, a separator, a run of digits up to the next separator (a
\* separator is no digit, so the run is taken whole), and one or more digits.
PatternEnds(s, i) ==
    UNION {LET d == RunEnd(s, i + k + 1, Digits) IN
             IF /\ RunEnd(s, i, Letters) >= i + k - 1
                /\ IsSeparator(s, i + k)
                /\ d >= i + k + 1
                /\ IsSeparator(s, d + 1)
               THEN (d + 2)..RunEnd(s, d + 2, Digits)
               ELSE {}
           : k \in 1..6}

\* The pattern as a whole-string match (anchored at both ends).
PatternAnchored(s) == Len(s) \in PatternEnds(s, 1)

\* Field(pattern=...): the constraint holds when the pattern is found
\* anywhere in the string; the pattern of the source carries no anchors.
PatternFound(s) == \E i \in 1..Len(s) : PatternEnds(s, i) # {}

\* ----------------------------------------------------------------- schema
FieldNames == {"requester", "status", "request_type", "librarian", "project",
               "task", "concord_id", "concord_folder", "manufacturer",
               "part_number", "manufacturer_link", "solution",
               "concord_footprint_id", "footprint_name"}

\* The constraints of the ComponentRequest fields; the text fields are str.
Validates(d) ==
    /\ d.status \in Status
    /\ d.request_type \in RequestType
    /\ d.librarian \in Librarian
    /\ d.solution \in Solution
    /\ (d.concord_id # None => PatternFound(d.concord_id[1]))
    /\ (d.concord_footprint_id # None => PatternFound(d.concord_footprint_id[1]))

INT_123_456 == <<"I", "N", "T", "-", "1", "2", "3", "-", "4", "5", "6">>

\* The record create_request builds when test is set.
TestRequest(now) ==
    [requester |-> "Max Ludden", request_date |-> now, status |-> "New",
     request_type |-> "Component Full", librarian |-> "Max Ludden",
     project |-> "[INT] Internal", task |-> "Training",
     concord_id |-> Some(INT_123_456), concord_folder |-> "Capacitor",
     manufacturer |-> Some("Murata"),
     part_number |-> Some("GRM155R71H103KA01D"),
     manufacturer_link |->
       Some("https://www.murata.com/en-us/products/productdetail?partno=GRM155R71H103KA01D"),
     solution |-> "Copied From", concord_footprint_id |-> Some(INT_123_456),
     footprint_name |-> Some("0805_h1.5_n")]

\* The default librarian confused with the librarian of the test record.
DefaultLibrarianWrong == "Max Ludden"

DefaultLibrarian == "Raymond Glover"

\* The record create_request builds from its arguments (test not set).
BuiltRequest(a, now) ==
    [requester |-> OrElse(a.requester, ""), request_date |-> now,
     status |-> OrElse(a.status, "New"),
     request_type |-> OrElse(a.request_type, "Component Full"),
     librarian |-> OrElse(a.librarian, DefaultLibrarian),
     project |-> OrElse(a.project, ""), task |-> OrElse(a.task, ""),
     concord_id |-> a.concord_id,
     concord_folder |-> OrElse(a.concord_folder, ""),
     manufacturer |-> a.manufacturer, part_number |-> a.part_number,
     manufacturer_link |-> a.manufacturer_link,
     solution |-> OrElse(a.solution, "Existing"),
     concord_footprint_id |-> a.concord_footprint_id,
     footprint_name |-> a.footprint_name]

NewRequest(a, now) == IF a.test THEN TestRequest(now) ELSE BuiltRequest(a, now)

\* ------------------------------------------------------------------ state
VARIABLES
    env,      \* MONGO_URI of the process environment: None or Some(uri)
    handle,   \* TRUE once init_beanie has bound ComponentRequest to a database
    store,    \* the collection: identifier -> stored document
    nextId,   \* the next identifier the store assigns
    pc,       \* per caller: "idle", or the storage step it awaits
    local,    \* per caller: the arguments and the request object of its call
    ret,      \* what the call that finished last returned or raised
    sink      \* what has been printed

vars == <<env, handle, store, nextId, pc, local, ret, sink>>

MongoUri == "mongodb://db.example:27017"
ValidUris == {MongoUri}

Idle == [op |-> "idle"]

NoArgs == [f \in FieldNames |-> None] @@ [test |-> FALSE]

\* What a finished call leaves in ret.
Returned(t, r) == /\ ret' = r
                  /\ pc' = [pc EXCEPT ![t] = "idle"]
                  /\ local' = [local EXCEPT ![t] = Idle]

Awaits(t, step, l) == /\ pc' = [pc EXCEPT ![t] = step]
                      /\ local' = [local EXCEPT ![t] = l]
                      /\ UNCHANGED ret

\* What update_request and delete_request return, by the return statement
\* reached: update_request has no return under its try, and falls through.
UpdateReturnSaved == "False"
UpdateReturnInvalid == "False"
UpdateReturnMissing == "False"
DeleteReturnRemoved == "False"
DeleteReturnFailed == "False"
DeleteReturnMissing == "False"

\* Settings sets no validate_on_save, and Beanie's default is off.
validate_on_save == FALSE

Inserting == {t \in Tasks : pc[t] = "insert"}

\* ----------------------------------------------------------- initialisation
\* mongo.get_mongo_uri: the environment's MONGO_URI, else a secret reference.
get_mongo_uri == IF env = None THEN "op://Dev/Mongo-AppliedLogix/uri" ELSE env[1]

\* ComponentRequest.init_db: a client for MONGO_URI (for None the driver's
\* default, localhost), then init_beanie, which needs the server to answer.
init_db(t, reachable) ==
    /\ pc[t] = "idle"
    /\ IF reachable
         THEN handle' = TRUE /\ Returned(t, "database")
         ELSE UNCHANGED handle /\ Returned(t, "ConnectionFailure")
    /\ UNCHANGED <<env, store, nextId, sink>>

\* mongo.init_db: the client of get_client, then init_beanie with the
\* undefined name Request and without await; it binds nothing.
mongo_init_db(t) ==
    /\ pc[t] = "idle"
    /\ Returned(t, IF get_mongo_uri \in ValidUris THEN "NameError"
                                                  ELSE "ConnectionError")
    /\ UNCHANGED <<env, handle, store, nextId, sink>>

\* ------------------------------------------------------------------ create
\* A caller may start a create while the store has identifiers left.
CanCreate(t) == pc[t] = "idle" /\ nextId + Cardinality(Inserting) <= MaxDocs

\* create_request up to its await: the request object is built and validated.
create_request(t, a, now) ==
    /\ CanCreate(t)
    /\ LET d == NewRequest(a, now) IN
         IF ~Validates(d) THEN Returned(t, "ValidationError")
         ELSE IF ~handle THEN Returned(t, "CollectionWasNotInitialized")
         ELSE Awaits(t, "insert",
                     [op |-> "create", args |-> a, now |-> now, request |-> d])
    /\ UNCHANGED <<env, handle, store, nextId, sink>>

\* await new_request.insert()
insert(t, net) ==
    /\ pc[t] = "insert"
    /\ IF net
         THEN /\ store' = (nextId :> local[t].request) @@ store
              /\ nextId' = nextId + 1
              /\ Returned(t, "None")
         ELSE /\ UNCHANGED <<store, nextId>>
              /\ Returned(t, "ConnectionFailure")
    /\ UNCHANGED <<env, handle, sink>>

\* -------------------------------------------------------------------- read
\* A stored document is parsed into a ComponentRequest when it is read.
Parses(d) == Validates(d)

\* get_all_requests: find_all().to_list()
get_all_requests(t, net) ==
    /\ pc[t] = "idle"
    /\ Returned(t, IF ~handle THEN "CollectionWasNotInitialized"
                   ELSE IF ~net THEN "ConnectionFailure"
                   ELSE IF \E i \in DOMAIN store : ~Parses(store[i])
                          THEN "ValidationError"
                   ELSE "list")
    /\ UNCHANGED <<env, handle, store, nextId, sink>>

\* What a completed get_all_requests returns: the documents by identifier.
list_all == store

\* ------------------------------------------------------------------ update
\* update_request up to request.save(): the lookup and the assignment.
update_request(t, request_id, status, net) ==
    /\ pc[t] = "idle"
    /\ IF ~handle THEN Returned(t, "CollectionWasNotInitialized")
       ELSE IF ~net THEN Returned(t, "ConnectionFailure")
       ELSE IF request_id \notin DOMAIN store
              THEN Returned(t, UpdateReturnMissing)
       ELSE IF ~Parses(store[request_id]) THEN Returned(t, "ValidationError")
       ELSE Awaits(t, "save",
                   [op |-> "update", request_id |-> request_id,
                    status |-> status,
                    request |-> [store[request_id] EXCEPT !.status = status]])
    /\ UNCHANGED <<env, handle, store, nextId, sink>>

\* await request.save(), and the except clause around it.  save validates
\* the request only under validate_on_save; it writes the document under
\* its identifier, and inserts it when the store holds none.
\* ConnectionFailure is not among the exceptions update_request catches.
save(t, net) ==
    /\ pc[t] = "save"
    /\ IF validate_on_save /\ ~Validates(local[t].request)
         THEN /\ UNCHANGED store
              /\ Returned(t, UpdateReturnInvalid)
       ELSE IF net
         THEN /\ store' = (local[t].request_id :> local[t].request) @@ store
              /\ Returned(t, UpdateReturnSaved)
         ELSE /\ UNCHANGED store
              /\ Returned(t, "ConnectionFailure")
    /\ UNCHANGED <<env, handle, nextId, sink>>

\* ------------------------------------------------------------------ delete
\* delete_request up to request.delete(): the lookup.
delete_request(t, request_id, net) ==
    /\ pc[t] = "idle"
    /\ IF ~handle THEN Returned(t, "CollectionWasNotInitialized")
       ELSE IF ~net THEN Returned(t, "ConnectionFailure")
       ELSE IF request_id \notin DOMAIN store
              THEN Returned(t, DeleteReturnMissing)
       ELSE IF ~Parses(store[request_id]) THEN Returned(t, "ValidationError")
       ELSE Awaits(t, "delete",
                   [op |-> "delete", request_id |-> request_id,
                    request |-> store[request_id]])
    /\ UNCHANGED <<env, handle, store, nextId, sink>>

DatabaseErrorMessage == "Database error occurred while deleting the request"

\* await request.delete(), and the except clauses around it.
delete(t, net) ==
    /\ pc[t] = "delete"
    /\ IF net
         THEN /\ store' = [i \in DOMAIN store \ {local[t].request_id} |-> store[i]]
              /\ UNCHANGED sink
              /\ Returned(t, DeleteReturnRemoved)
         ELSE /\ UNCHANGED store
              /\ sink' = sink \cup {DatabaseErrorMessage}
              /\ Returned(t, DeleteReturnFailed)
    /\ UNCHANGED <<env, handle, nextId>>

\* ---------------------------------------------------------- specification
Init ==
    /\ env \in {None, Some(MongoUri)}
    /\ handle = FALSE
    /\ store = <<>>
    /\ nextId = 1
    /\ pc = [t \in Tasks |-> "idle"]
    /\ local = [t \in Tasks |-> Idle]
    /\ ret = "-"
    /\ sink = {}

\* The arguments the callers of the lifecycle specification pass.
CreateInputs == {NoArgs, [NoArgs EXCEPT !.test = TRUE],
                 [NoArgs EXCEPT !.status = Some(Bogus)]}
StatusInputs == {"In Progress", "Delete", Bogus}

Next ==
    \E t \in Tasks :
        \/ \E reachable \in BOOLEAN : init_db(t, reachable)
        \/ mongo_init_db(t)
        \/ CanCreate(t) /\ \E a \in CreateInputs, now \in Times :
                              create_request(t, a, now)
        \/ \E net \in BOOLEAN : insert(t, net)
        \/ \E net \in BOOLEAN : get_all_requests(t, net)
        \/ \E i \in Ids, s \in StatusInputs, net \in BOOLEAN :
               update_request(t, i, s, net)
        \/ \E net \in BOOLEAN : save(t, net)
        \/ \E i \in Ids, net \in BOOLEAN : delete_request(t, i, net)
        \/ \E net \in BOOLEAN : delete(t, net)

Spec == Init /\ [][Next]_vars

\* ------------------------------------------- specifications of create alone
\* A store that has handed out all identifiers but one, and holds either
\* nothing or a test record under each: init_db has just been called again.
InitReady ==
    /\ env = Some(MongoUri)
    /\ handle = TRUE
    /\ store \in {<<>>, [i \in 1..(MaxDocs - 1) |-> TestRequest(0)]}
    /\ nextId = MaxDocs
    /\ pc = [t \in Tasks |-> "idle"]
    /\ local = [t \in Tasks |-> Idle]
    /\ ret = "database"
    /\ sink = {}

\* One valid value per field; a call gives any subset of the fields.
Given ==
    [requester |-> "Max Ludden", status |-> "QC",
     request_type |-> "Footprint Only", librarian |-> "Paul Shaver",
     project |-> "[INT] Internal", task |-> "Training",
     concord_id |-> INT_123_456, concord_folder |-> "Capacitor",
     manufacturer |-> "Murata", part_number |-> "GRM155R71H103KA01D",
     manufacturer_link |-> "https://www.murata.com/",
     solution |-> "Copied From", concord_footprint_id |-> INT_123_456,
     footprint_name |-> "0805_h1.5_n"]

AllInputs ==
    {[f \in FieldNames |-> IF f \in G THEN Some(Given[f]) ELSE None]
        @@ [test |-> FALSE] : G \in SUBSET FieldNames}

NextCreate ==
    \E t \in Tasks :
        \/ CanCreate(t) /\ \E a \in AllInputs, now \in Times :
                              create_request(t, a, now)
        \/ \E net \in BOOLEAN : insert(t, net)

SpecCreate == InitReady /\ [][NextCreate]_vars

\* Every string of at most MaxLen characters over a letter, a digit, a
\* separator and a character of no class, in either pattern field.
Alphabet == {"A", "7", "-", "#"}
Strings == UNION {[1..n -> Alphabet] : n \in 0..MaxLen}
PatternFields == {"concord_id", "concord_footprint_id"}

NextPattern ==
    \E t \in Tasks :
        \/ CanCreate(t) /\ \E f \in PatternFields, str \in Strings,
                              now \in Times :
               create_request(t, [NoArgs EXCEPT ![f] = Some(str)], now)
        \/ \E net \in BOOLEAN : insert(t, net)

SpecPattern == InitReady /\ [][NextPattern]_vars

\* ------------------------------------------------------------------ claims
\* C1: update_status on a document that is present, with any status of the
\* vocabulary, returns true, and list_all then shows that status.
C1_UpdateStatusSucceeds ==
    [][\A t \in Tasks :
         (/\ pc[t] = "save"
          /\ local[t].request_id \in DOMAIN store
          /\ local[t].status \in Status
          /\ save(t, TRUE))
         => /\ ret' = "True"
            /\ list_all'[local[t].request_id].status = local[t].status]_vars

\* C2: delete returns true exactly when the document existed and was
\* removed; after a true return the identifier is gone and every other
\* document is as it was.
C2_DeleteReturnsTrueIffRemoved ==
    [][\A t \in Tasks :
         /\ \A net \in BOOLEAN :
              delete(t, net) =>
                /\ (ret' = "True") <=> (net /\ local[t].request_id \in DOMAIN store)
                /\ (ret' = "True") =>
                     list_all' = [i \in DOMAIN store \ {local[t].request_id}
                                    |-> store[i]]
         /\ \A i \in Ids, net \in BOOLEAN :
              (delete_request(t, i, net) /\ pc'[t] = "idle") => ret' # "True"]_vars

\* C3: the record the claim expects of a create: each field as given, else
\* its documented default.
C3_Expected(a, date) ==
    [requester |-> IF a.requester = None THEN "" ELSE a.requester[1],
     request_date |-> date,
     status |-> IF a.status = None THEN "New" ELSE a.status[1],
     request_type |-> IF a.request_type = None THEN "Component Full"
                                                ELSE a.request_type[1],
     librarian |-> IF a.librarian = None THEN "Raymond Glover"
                                          ELSE a.librarian[1],
     project |-> IF a.project = None THEN "" ELSE a.project[1],
     task |-> IF a.task = None THEN "" ELSE a.task[1],
     concord_id |-> a.concord_id,
     concord_folder |-> IF a.concord_folder = None THEN ""
                                                    ELSE a.concord_folder[1],
     manufacturer |-> a.manufacturer,
     part_number |-> a.part_number,
     manufacturer_link |-> a.manufacturer_link,
     solution |-> IF a.solution = None THEN "Existing" ELSE a.solution[1],
     concord_footprint_id |-> a.concord_footprint_id,
     footprint_name |-> a.footprint_name]

\* C3: for every combination of given and omitted fields, a create that
\* returns leaves list_all equal to the previous collection plus exactly one
\* record under a new identifier, with the given values and the documented
\* defaults (absent for the six optional fields).
C3_CreateAddsExpectedRecord ==
    [][\A t \in Tasks :
         (pc[t] = "insert" /\ pc'[t] = "idle" /\ ret' = "None")
         => \E i \in Ids \ DOMAIN store :
              /\ DOMAIN list_all' = DOMAIN store \cup {i}
              /\ \A j \in DOMAIN store : list_all'[j] = store[j]
              /\ list_all'[i] = C3_Expected(local[t].args, local[t].now)]_vars

\* C3 witness: a create that gave some fields and omitted others has
\* returned, and its record stands beside the one that was there before.
C3_Witness ==
    /\ ret = "None"
    /\ Cardinality(DOMAIN store) = MaxDocs
    /\ \E i \in DOMAIN store :
         /\ store[i].requester = "Max Ludden"
         /\ store[i].librarian = "Raymond Glover"
         /\ store[i].status = "New"
         /\ store[i].solution = "Copied From"
         /\ store[i].concord_id = None
         /\ store[i].footprint_name = Some("0805_h1.5_n")

\* C4: a concord_id or concord_footprint_id that is not, as a whole string,
\* letters-separator-digits-separator-digits never gets past validation:
\* no insert is awaited for it and no stored document carries it.
C4_NonMatchingIdRejected ==
    /\ \A t \in Tasks : \A f \in PatternFields :
         (pc[t] = "insert" /\ local[t].request[f] # None)
         => PatternAnchored(local[t].request[f][1])
    /\ \A i \in DOMAIN store : \A f \in PatternFields :
         store[i][f] # None => PatternAnchored(store[i][f][1])

\* C5: every stored document has status, request_type, librarian and
\* solution in their vocabularies, whatever the calls were given.
C5_EnumFieldsInVocabulary ==
    \A i \in DOMAIN store :
        /\ store[i].status \in Status
        /\ store[i].request_type \in RequestType
        /\ store[i].librarian \in Librarian
        /\ store[i].solution \in Solution

\* C6: the write of update_status changes the status of the identified
\* document alone: the set of identifiers, every other document and every
\* other field of the document stay as they were.
C6_UpdateChangesStatusAlone ==
    [][\A t \in Tasks :
         (pc[t] = "save" /\ save(t, TRUE))
         => LET i == local[t].request_id IN
              /\ DOMAIN store' = DOMAIN store
              /\ \A j \in DOMAIN store \ {i} : store'[j] = store[j]
              /\ i \in DOMAIN store
                   => [store'[i] EXCEPT !.status = store[i].status] = store[i]]_vars

\* C7: update_status and delete on an identifier of no document report an
\* outcome that differs from the outcomes of success and of a validation
\* failure, and leave the collection as it was.
C7_NotFoundIsDistinct ==
    [][\A t \in Tasks, i \in Ids :
         (handle /\ i \notin DOMAIN store)
         => /\ \A s \in StatusInputs :
                 update_request(t, i, s, TRUE)
                 => /\ ret' \notin {UpdateReturnSaved, UpdateReturnInvalid}
                    /\ store' = store
            /\ delete_request(t, i, TRUE)
                 => /\ ret' \notin {DeleteReturnRemoved, DeleteReturnFailed}
                    /\ store' = store]_vars

\* C8: a connection failure in the persistence step of update_status or of
\* delete is not raised to the caller: the call returns false, the sink has
\* the report, and the stored document is as it was.
C8_ConnectionFailureIsReturned ==
    [][\A t \in Tasks :
         (save(t, FALSE) \/ delete(t, FALSE))
         => /\ ret' = "False"
            /\ sink' # {}
            /\ store' = store]_vars

\* C9: with no MONGO_URI in the environment the store handle never becomes
\* usable.
C9_NoUriNoHandle == env = None => ~handle

\* C10: once a delete has removed an identifier, no later state of the
\* collection holds it, under any interleaving of the storage steps.
C10_DeletionIsPermanent ==
    [][\A i \in Ids :
         (i < nextId /\ i \notin DOMAIN store) => i \notin DOMAIN store']_vars

====
